---- MODULE Spec2Model ----
(***************************************************************************)
(* Model of sentinel_bot's main.py: the MIME walker                        *)
(* (extract_text_plain_parts), the line normalizer (process_list), the     *)
(* orchestrator (parse_email) and the batch loop (main).                   *)
(*                                                                         *)
(* Python str values that the code inspects character by character         *)
(* (payloads, lines) are sequences of one-character strings; "" is <<>>.   *)
(* Python list indices are kept 0-based, as in the source.                 *)
(***************************************************************************)
EXTENDS Integers, Sequences, FiniteSets, TLC

VARIABLES
    lst, collapsed_list, renormalized, npc,          \* process_list driver
    tree, yielded, wpc,                              \* walker driver
    mime_message, subject, message_date,             \* parse_email locals
    message_date_object, body, parts, _email, raised, ppc,
    threads, tidx, _emails, calls, caught, mpc       \* main locals

normVars  == <<lst, collapsed_list, renormalized, npc>>
walkVars  == <<tree, yielded, wpc>>
parseVars == <<mime_message, subject, message_date, message_date_object,
               body, parts, _email, raised, ppc>>
mainVars  == <<threads, tidx, _emails, calls, caught, mpc>>
vars      == <<normVars, walkVars, parseVars, mainVars>>

----------------------------------------------------------------------------
(* Bounds *)

MaxLen == 5          \* longest list handed to process_list
MaxLineLen == 2      \* longest line in such a list

----------------------------------------------------------------------------
(* Python str and list primitives *)

Alphabet == {"A", " ", "\n"}
Whitespace == {" ", "\n"}

Min(a, b) == IF a <= b THEN a ELSE b

\* Python lst[a:b] with 0 <= a, 0 <= b (0-based, end exclusive).
Slice(s, a, b) == SubSeq(s, a + 1, Min(b, Len(s)))

RECURSIVE lstrip(_)
lstrip(s) ==
    IF s # <<>> /\ Head(s) \in Whitespace THEN lstrip(Tail(s)) ELSE s

RECURSIVE rstrip(_)
rstrip(s) ==
    IF s # <<>> /\ s[Len(s)] \in Whitespace
    THEN rstrip(SubSeq(s, 1, Len(s) - 1)) ELSE s

\* str.strip()
strip(s) == rstrip(lstrip(s))

\* truthiness of a Python str
Truthy(s) == s # <<>>

\* "".join(list)
RECURSIVE Concat(_)
Concat(ss) == IF ss = <<>> THEN <<>> ELSE Head(ss) \o Concat(Tail(ss))

\* sep.join(list)
RECURSIVE Join(_, _)
Join(ss, sep) ==
    IF ss = <<>> THEN <<>>
    ELSE IF Len(ss) = 1 THEN Head(ss)
    ELSE Head(ss) \o sep \o Join(Tail(ss), sep)

NL == <<"\n">>

----------------------------------------------------------------------------
(* process_list *)

NoneIdx == -1   \* the None that next(..., None) returns

\* next((i for i, x in enumerate(l) if x.strip()), None)
first_non_empty_index(l) ==
    IF \E i \in 1..Len(l) : Truthy(strip(l[i]))
    THEN (CHOOSE i \in 1..Len(l) :
              /\ Truthy(strip(l[i]))
              /\ \A j \in 1..(i - 1) : ~Truthy(strip(l[j]))) - 1
    ELSE NoneIdx

\* l[::-1]
Reverse(l) == [i \in 1..Len(l) |-> l[Len(l) + 1 - i]]

TrimLeadingOneOnly(l) ==
    IF first_non_empty_index(l) # NoneIdx
    THEN Slice(l, Min(first_non_empty_index(l), 1), Len(l))
    ELSE l

\* lines 93-97
TrimLeading(l) ==
    IF first_non_empty_index(l) # NoneIdx
    THEN Slice(l, first_non_empty_index(l), Len(l))
    ELSE l

TrimTrailingOffByOne(l) ==
    LET last_non_empty_index == first_non_empty_index(Reverse(l))
    IN  IF last_non_empty_index # NoneIdx
        THEN Slice(l, 0, Len(l) - last_non_empty_index + 1)
        ELSE l

\* lines 100-105
TrimTrailing(l) ==
    LET last_non_empty_index == first_non_empty_index(Reverse(l))
    IN  IF last_non_empty_index # NoneIdx
        THEN Slice(l, 0, Len(l) - last_non_empty_index)
        ELSE l

KeepsItemCapThree(acc, item) ==
    IF Truthy(strip(item)) \/ (acc # <<>> /\ Truthy(strip(acc[Len(acc)])))
    THEN TRUE
    ELSE Len(acc) < 3 \/ Truthy(strip(acc[Len(acc) - 2]))

\* lines 110-114: does the loop body append item to collapsed_list?
KeepsItem(acc, item) ==
    IF Truthy(strip(item)) \/ (acc # <<>> /\ Truthy(strip(acc[Len(acc)])))
    THEN TRUE
    ELSE Len(acc) < 2 \/ Truthy(strip(acc[Len(acc) - 1]))

\* lines 108-114: the loop, from element i (1-based position) on
RECURSIVE CollapseFrom(_, _, _)
CollapseFrom(l, i, acc) ==
    IF i > Len(l) THEN acc
    ELSE CollapseFrom(l, i + 1,
                      IF KeepsItem(acc, l[i]) THEN Append(acc, l[i]) ELSE acc)

Collapse(l) == CollapseFrom(l, 1, <<>>)

CanonicalizeNothing(c) == c

\* lines 116-118
Canonicalize(c) == [i \in 1..Len(c) |-> IF ~Truthy(c[i]) THEN NL ELSE c[i]]

\* lines 91-120
process_list(l) == Canonicalize(Collapse(TrimTrailing(TrimLeading(l))))

----------------------------------------------------------------------------
(* Inputs of process_list: lists of lines the caller has already stripped *)

RECURSIVE StringsUpTo(_)
StringsUpTo(n) ==
    IF n = 0 THEN {<<>>}
    ELSE LET shorter == StringsUpTo(n - 1)
         IN  shorter \cup {Append(s, c) : s \in {t \in shorter : Len(t) = n - 1},
                                          c \in Alphabet}

TrimmedLines == {s \in StringsUpTo(MaxLineLen) : strip(s) = s}

RECURSIVE ListsUpTo(_, _)
ListsUpTo(S, n) ==
    IF n = 0 THEN {<<>>}
    ELSE LET shorter == ListsUpTo(S, n - 1)
         IN  shorter \cup {Append(s, e) : s \in {t \in shorter : Len(t) = n - 1},
                                          e \in S}

ProcessListInputs == ListsUpTo(TrimmedLines, MaxLen)

----------------------------------------------------------------------------
(* MIME nodes and extract_text_plain_parts *)

MaxNodes == 5       \* most nodes (containers and leaves) of a MIME tree

Leaf(ctype, text) ==
    [is_multipart |-> FALSE, content_type |-> ctype, text |-> text]
Multipart(children) ==
    [is_multipart |-> TRUE, children |-> children]

\* Message.get_payload(): the child list of a container, the text of a leaf
get_payload(part) == IF part.is_multipart THEN part.children ELSE part.text

get_content_type(part) == part.content_type

YieldsAnyText(part) == TRUE

\* line 33: the test that guards the yield of a leaf
YieldsLeaf(part) == get_content_type(part) = "text/plain"

\* lines 28-34; the generator's output, in the order it is yielded
RECURSIVE extract_text_plain_parts(_)
RECURSIVE YieldFromEach(_)
extract_text_plain_parts(part) ==
    IF part.is_multipart
    THEN YieldFromEach(get_payload(part))
    ELSE IF YieldsLeaf(part) THEN <<get_payload(part)>> ELSE <<>>

\* lines 31-32: for subpart in ...: yield from extract_text_plain_parts(subpart)
YieldFromEach(subparts) ==
    IF subparts = <<>> THEN <<>>
    ELSE extract_text_plain_parts(Head(subparts)) \o YieldFromEach(Tail(subparts))

ContentTypes == {"text/plain", "text/html"}
WalkTexts == {<<"A">>, <<"B">>}

\* the MIME trees of exactly n nodes, and the child lists of n nodes in all
RECURSIVE TreesOfSize(_)
RECURSIVE ForestsOfSize(_)
TreesOfSize(n) ==
    IF n = 0 THEN {}
    ELSE {Multipart(cs) : cs \in ForestsOfSize(n - 1)}
         \cup (IF n = 1 THEN {Leaf(c, t) : c \in ContentTypes, t \in WalkTexts}
               ELSE {})

ForestsOfSize(n) ==
    IF n = 0 THEN {<<>>}
    ELSE UNION {{<<t>> \o f : t \in TreesOfSize(j), f \in ForestsOfSize(n - j)} :
                j \in 1..n}

TreesUpTo(n) == UNION {TreesOfSize(k) : k \in 1..n}

----------------------------------------------------------------------------
(* Python values that may be None *)

PyNone == [type |-> "NoneType"]
PyStr(v) == [type |-> "str", value |-> v]

----------------------------------------------------------------------------
(* datetime.strptime(date_string, "%a, %d %b %Y %H:%M:%S %z")              *)
(* A date string is the sequence of its fields and punctuation; the blanks *)
(* that separate them are left out.                                        *)

DateFormat ==
    <<"%a", ",", "%d", "%b", "%Y", "%H", ":", "%M", ":", "%S", "%z">>

Weekdays == {"Mon", "Tue", "Wed", "Thu", "Fri", "Sat", "Sun"}
Months == <<"Jan", "Feb", "Mar", "Apr", "May", "Jun",
            "Jul", "Aug", "Sep", "Oct", "Nov", "Dec">>
\* the numerals the model knows, with their values
TwoDigits == ("00" :> 0) @@ ("01" :> 1) @@ ("10" :> 10) @@ ("24" :> 24)
             @@ ("31" :> 31) @@ ("59" :> 59)
FourDigits == ("2024" :> 2024)
Offsets == ("+0000" :> 0) @@ ("+0200" :> 120)

MonthNumber(tok) == CHOOSE m \in 1..12 : Months[m] = tok

DaysInMonth(m, y) ==
    IF m = 2 THEN (IF y % 4 = 0 /\ (y % 100 # 0 \/ y % 400 = 0) THEN 29 ELSE 28)
    ELSE IF m \in {4, 6, 9, 11} THEN 30 ELSE 31

\* does one field of the string match one directive of the format?
FieldMatches(directive, tok) ==
    CASE directive = "%a" -> tok \in Weekdays
      [] directive = "%d" -> tok \in DOMAIN TwoDigits /\ TwoDigits[tok] \in 1..31
      [] directive = "%b" -> \E m \in 1..12 : Months[m] = tok
      [] directive = "%Y" -> tok \in DOMAIN FourDigits
      [] directive = "%H" -> tok \in DOMAIN TwoDigits /\ TwoDigits[tok] \in 0..23
      [] directive = "%M" -> tok \in DOMAIN TwoDigits /\ TwoDigits[tok] \in 0..59
      [] directive = "%S" -> tok \in DOMAIN TwoDigits /\ TwoDigits[tok] \in 0..61
      [] directive = "%z" -> tok \in DOMAIN Offsets
      [] OTHER -> tok = directive

\* the regular expression of the format matches the whole string
FormatMatches(toks) ==
    /\ Len(toks) = Len(DateFormat)
    /\ \A i \in 1..Len(DateFormat) : FieldMatches(DateFormat[i], toks[i])

Raise(kind) == [type |-> "raise", error |-> kind]

strptimeOrNone(date_string) ==
    IF date_string = PyNone THEN PyNone
    ELSE IF ~FormatMatches(date_string.value) THEN PyNone
    ELSE LET t == date_string.value
         IN  [type |-> "datetime", year |-> FourDigits[t[5]],
              month |-> MonthNumber(t[4]), day |-> TwoDigits[t[3]],
              hour |-> TwoDigits[t[6]], minute |-> TwoDigits[t[8]],
              second |-> TwoDigits[t[10]], utcoffset |-> Offsets[t[11]]]

\* lines 126-128: the datetime, or the exception strptime raises
strptime(date_string) ==
    IF date_string = PyNone THEN Raise("TypeError")
    ELSE IF ~FormatMatches(date_string.value) THEN Raise("ValueError")
    ELSE LET t == date_string.value
             y == FourDigits[t[5]]
             m == MonthNumber(t[4])
             d == TwoDigits[t[3]]
         IN  IF d > DaysInMonth(m, y) THEN Raise("ValueError")
             ELSE [type |-> "datetime", year |-> y, month |-> m, day |-> d,
                   hour |-> TwoDigits[t[6]], minute |-> TwoDigits[t[8]],
                   second |-> TwoDigits[t[10]], utcoffset |-> Offsets[t[11]]]

----------------------------------------------------------------------------
(* Messages: the header list and the root part *)

Header(name, value) == [name |-> name, value |-> value]
Message(headers, part) == [headers |-> headers, part |-> part]

\* Message.get(name): the value of the first header of that name, else None
get(msg, name) ==
    IF \E i \in 1..Len(msg.headers) : msg.headers[i].name = name
    THEN PyStr(msg.headers[CHOOSE i \in 1..Len(msg.headers) :
                   /\ msg.headers[i].name = name
                   /\ \A j \in 1..(i - 1) : msg.headers[j].name # name].value)
    ELSE PyNone

\* str.splitlines(), "\n" being the line terminator of the alphabet
RECURSIVE splitlines(_)
splitlines(s) ==
    IF s = <<>> THEN <<>>
    ELSE IF \E i \in 1..Len(s) : s[i] = "\n"
    THEN LET i == CHOOSE k \in 1..Len(s) :
                      s[k] = "\n" /\ \A j \in 1..(k - 1) : s[j] # "\n"
         IN  <<SubSeq(s, 1, i - 1)>> \o splitlines(SubSeq(s, i + 1, Len(s)))
    ELSE <<s>>

\* line 134
cleaned_lines(part) ==
    LET lines == splitlines(part) IN [i \in 1..Len(lines) |-> strip(lines[i])]

JoinLinesWithNewline(collapsed_lines) == Join(collapsed_lines, NL)

\* line 136
JoinLines(collapsed_lines) == Concat(collapsed_lines)

\* lines 133-136: the string one loop iteration appends to body
PartMessage(part) == JoinLines(process_list(cleaned_lines(part)))

JoinBodyNoSeparator(b) == Concat(b)

\* line 140: "\n".join(body)
JoinBody(b) == Join(b, NL)

Email(date, subj, text) ==
    [type |-> "Email", date |-> date, subject |-> subj, body |-> text,
     attachments |-> <<>>, attachment_links |-> <<>>]

----------------------------------------------------------------------------
(* Drivers of the two pure functions *)

NormIdle == /\ lst = <<>> /\ collapsed_list = <<>> /\ renormalized = <<>>
            /\ npc = "idle"
WalkIdle == /\ tree = Multipart(<<>>) /\ yielded = <<>> /\ wpc = "idle"

\* process_list(lst)
ProcessList ==
    /\ npc = "call"
    /\ collapsed_list' = process_list(lst)
    /\ npc' = "returned"
    /\ UNCHANGED <<lst, renormalized, walkVars, parseVars, mainVars>>

\* process_list applied to its own result
ProcessListAgain ==
    /\ npc = "returned"
    /\ renormalized' = process_list(collapsed_list)
    /\ npc' = "renormalized"
    /\ UNCHANGED <<lst, collapsed_list, walkVars, parseVars, mainVars>>

\* list(extract_text_plain_parts(tree))
Walk ==
    /\ wpc = "call"
    /\ yielded' = extract_text_plain_parts(tree)
    /\ wpc' = "exhausted"
    /\ UNCHANGED <<tree, normVars, parseVars, mainVars>>

----------------------------------------------------------------------------
(* parse_email, one step per statement group *)

ParseIdle ==
    /\ mime_message = Message(<<>>, Multipart(<<>>))
    /\ subject = PyNone /\ message_date = PyNone /\ message_date_object = PyNone
    /\ body = <<>> /\ parts = <<>> /\ _email = PyNone /\ raised = PyNone
    /\ ppc = "idle"

\* lines 124-132: the headers are read, the date parses, the walker starts
ParseHeaders ==
    /\ ppc = "call"
    /\ strptime(get(mime_message, "Date")).type # "raise"
    /\ subject' = get(mime_message, "Subject")
    /\ message_date' = get(mime_message, "Date")
    /\ message_date_object' = strptime(get(mime_message, "Date"))
    /\ body' = <<>>
    /\ parts' = extract_text_plain_parts(mime_message.part)
    /\ ppc' = "loop"
    /\ UNCHANGED <<mime_message, _email, raised, normVars, walkVars, mainVars>>

\* lines 124-128: strptime raises and nothing in parse_email catches it
ParseDateRaises ==
    /\ ppc = "call"
    /\ strptime(get(mime_message, "Date")).type = "raise"
    /\ subject' = get(mime_message, "Subject")
    /\ message_date' = get(mime_message, "Date")
    /\ raised' = strptime(get(mime_message, "Date"))
    /\ ppc' = "raised"
    /\ UNCHANGED <<mime_message, message_date_object, body, parts, _email,
                   normVars, walkVars, mainVars>>

BodyPrepend(b, message) == <<message>> \o b

\* line 137
BodyAppend(b, message) == Append(b, message)

\* lines 132-137: one iteration of the loop over the walker's parts
ParseNextPart ==
    /\ ppc = "loop"
    /\ parts # <<>>
    /\ body' = BodyAppend(body, PartMessage(Head(parts)))
    /\ parts' = Tail(parts)
    /\ UNCHANGED <<mime_message, subject, message_date, message_date_object,
                   _email, raised, ppc, normVars, walkVars, mainVars>>

\* lines 139-143: the walker is exhausted
ParseReturn ==
    /\ ppc = "loop"
    /\ parts = <<>>
    /\ _email' = Email(message_date_object, subject, JoinBody(body))
    /\ ppc' = "returned"
    /\ UNCHANGED <<mime_message, subject, message_date, message_date_object,
                   body, parts, raised, normVars, walkVars, mainVars>>

ParseNext == ParseHeaders \/ ParseDateRaises \/ ParseNextPart \/ ParseReturn

----------------------------------------------------------------------------
(* main *)

MaxThreads == 2      \* most threads get_threads returns

NoError == [type |-> "no error"]
ErrorAt(where, kind) == [type |-> "error", at |-> where, kind |-> kind]
Call(op, id) == [op |-> op, id |-> id]

MainIdle ==
    /\ threads = <<>> /\ tidx = 0 /\ _emails = <<>> /\ calls = <<>>
    /\ caught = NoError /\ mpc = "idle"

\* lines 148-150, outside the try
MainCredentials ==
    /\ mpc = "start"
    /\ mpc' = "try"
    /\ UNCHANGED <<threads, tidx, _emails, calls, caught,
                   normVars, walkVars, parseVars>>

\* lines 148-150 raise: nothing catches it
MainCredentialsRaise ==
    /\ mpc = "start"
    /\ caught' = ErrorAt("get_or_refresh_credentials", "Exception")
    /\ mpc' = "propagated"
    /\ UNCHANGED <<threads, tidx, _emails, calls, normVars, walkVars, parseVars>>

\* lines 152-153
MainGetThreads ==
    /\ mpc = "try"
    /\ tidx' = 0
    /\ mpc' = "loop"
    /\ UNCHANGED <<threads, _emails, calls, caught,
                   normVars, walkVars, parseVars>>

\* lines 152-153 raise, lines 160-164 catch
MainGetThreadsRaise ==
    /\ mpc = "try"
    /\ \E kind \in {"HttpError", "Exception"} :
           caught' = ErrorAt("get_threads", kind)
    /\ mpc' = "done"
    /\ UNCHANGED <<threads, tidx, _emails, calls, normVars, walkVars, parseVars>>

\* line 156
MainGetTopMessage ==
    /\ mpc = "loop"
    /\ tidx < Len(threads)
    /\ calls' = Append(calls, Call("get_top_message", threads[tidx + 1].id))
    /\ mpc' = "retrieved"
    /\ UNCHANGED <<threads, tidx, _emails, caught,
                   normVars, walkVars, parseVars>>

\* line 156 raises, lines 160-164 catch
MainGetTopMessageRaise ==
    /\ mpc = "loop"
    /\ tidx < Len(threads)
    /\ calls' = Append(calls, Call("get_top_message", threads[tidx + 1].id))
    /\ \E kind \in {"HttpError", "Exception"} :
           caught' = ErrorAt("get_top_message", kind)
    /\ mpc' = "done"
    /\ UNCHANGED <<threads, tidx, _emails, normVars, walkVars, parseVars>>

\* line 157: the call
MainCallParse ==
    /\ mpc = "retrieved"
    /\ calls' = Append(calls, Call("parse_email", threads[tidx + 1].id))
    /\ mime_message' = threads[tidx + 1].message
    /\ subject' = PyNone /\ message_date' = PyNone
    /\ message_date_object' = PyNone
    /\ body' = <<>> /\ parts' = <<>> /\ _email' = PyNone /\ raised' = PyNone
    /\ ppc' = "call"
    /\ mpc' = "in_parse"
    /\ UNCHANGED <<threads, tidx, _emails, caught, normVars, walkVars>>

MainAppendAtFront ==
    /\ mpc = "in_parse"
    /\ ppc = "returned"
    /\ _emails' = <<_email>> \o _emails
    /\ tidx' = tidx + 1
    /\ ppc' = "idle"
    /\ mpc' = "loop"
    /\ UNCHANGED <<threads, calls, caught, mime_message, subject, message_date,
                   message_date_object, body, parts, _email, raised,
                   normVars, walkVars>>

\* lines 157-158: parse_email returned
MainAppend ==
    /\ mpc = "in_parse"
    /\ ppc = "returned"
    /\ _emails' = Append(_emails, _email)
    /\ tidx' = tidx + 1
    /\ ppc' = "idle"
    /\ mpc' = "loop"
    /\ UNCHANGED <<threads, calls, caught, mime_message, subject, message_date,
                   message_date_object, body, parts, _email, raised,
                   normVars, walkVars>>

MainParseRaisedSkipsThread ==
    /\ mpc = "in_parse"
    /\ ppc = "raised"
    /\ caught' = ErrorAt("parse_email", raised.error)
    /\ tidx' = tidx + 1
    /\ ppc' = "idle"
    /\ mpc' = "loop"
    /\ UNCHANGED <<threads, _emails, calls, mime_message, subject,
                   message_date, message_date_object, body, parts, _email,
                   raised, normVars, walkVars>>

\* line 157 raises, lines 163-164 catch
MainParseRaised ==
    /\ mpc = "in_parse"
    /\ ppc = "raised"
    /\ caught' = ErrorAt("parse_email", raised.error)
    /\ ppc' = "idle"
    /\ mpc' = "done"
    /\ UNCHANGED <<threads, tidx, _emails, calls, mime_message, subject,
                   message_date, message_date_object, body, parts, _email,
                   raised, normVars, walkVars>>

\* line 155: the thread list is exhausted
MainLoopEnd ==
    /\ mpc = "loop"
    /\ tidx = Len(threads)
    /\ mpc' = "done"
    /\ UNCHANGED <<threads, tidx, _emails, calls, caught,
                   normVars, walkVars, parseVars>>

MainNext ==
    \/ MainCredentials \/ MainCredentialsRaise
    \/ MainGetThreads \/ MainGetThreadsRaise
    \/ MainGetTopMessage \/ MainGetTopMessageRaise
    \/ MainCallParse \/ MainAppend \/ MainParseRaised \/ MainLoopEnd
    \/ ParseNext

----------------------------------------------------------------------------
(* Inputs and specifications *)

MaxPayloadLen == 2   \* longest payload of a part handed to parse_email
MaxParts == 2        \* most parts of a multipart message handed to parse_email

DateGood ==
    <<"Mon", ",", "01", "Jan", "2024", "10", ":", "00", ":", "00", "+0000">>
DateSlashes == <<"01/01/2024">>
DateImpossible ==
    <<"Mon", ",", "31", "Feb", "2024", "10", ":", "00", ":", "00", "+0200">>
DateValues == {DateGood, DateSlashes, DateImpossible}
SubjectValues == {<<"H", "i">>}

HeaderLists ==
    LET subjects == {<<>>} \cup {<<Header("Subject", v)>> : v \in SubjectValues}
        dates == {<<>>} \cup {<<Header("Date", v)>> : v \in DateValues}
    IN  {sh \o dh : sh \in subjects, dh \in dates}

\* a text/html part is skipped whatever its text: one text stands for all
ParseParts ==
    {Leaf("text/plain", t) : t \in StringsUpTo(MaxPayloadLen)}
        \cup {Leaf("text/html", <<"A">>)}

ParseMessages ==
    {Message(h, p) : h \in HeaderLists,
                     p \in ParseParts \cup
                           {Multipart(cs) : cs \in ListsUpTo(ParseParts, MaxParts)}}

MainMessages ==
    {Message(h, Leaf("text/plain", <<"A">>)) : h \in HeaderLists}

Threads(ms) == [k \in 1..Len(ms) |-> [id |-> k, message |-> ms[k]]]

InitNorm ==
    /\ lst \in ProcessListInputs
    /\ collapsed_list = <<>> /\ renormalized = <<>> /\ npc = "call"
    /\ WalkIdle /\ ParseIdle /\ MainIdle

InitWalk ==
    /\ tree \in TreesUpTo(MaxNodes)
    /\ yielded = <<>> /\ wpc = "call"
    /\ NormIdle /\ ParseIdle /\ MainIdle

InitParse ==
    /\ mime_message \in ParseMessages
    /\ subject = PyNone /\ message_date = PyNone /\ message_date_object = PyNone
    /\ body = <<>> /\ parts = <<>> /\ _email = PyNone /\ raised = PyNone
    /\ ppc = "call"
    /\ NormIdle /\ WalkIdle /\ MainIdle

InitMain ==
    /\ threads \in {Threads(ms) : ms \in ListsUpTo(MainMessages, MaxThreads)}
    /\ tidx = 0 /\ _emails = <<>> /\ calls = <<>> /\ caught = NoError
    /\ mpc = "start"
    /\ NormIdle /\ WalkIdle /\ ParseIdle

NormNext == ProcessList \/ ProcessListAgain
WalkNext == Walk

SpecNorm  == InitNorm /\ [][NormNext]_vars
SpecWalk  == InitWalk /\ [][WalkNext]_vars
SpecParse == InitParse /\ [][ParseNext]_vars
SpecMain  == InitMain /\ [][MainNext]_vars

Init == InitNorm \/ InitWalk \/ InitParse \/ InitMain
Next == NormNext \/ WalkNext \/ MainNext
Spec == Init /\ [][Next]_vars

----------------------------------------------------------------------------
(* Vocabulary of the properties *)

IsBlank(x) == strip(x) = <<>>
NonEmptyOf(l) == SelectSeq(l, LAMBDA x : ~IsBlank(x))
NonEmptyCount(l) == Len(NonEmptyOf(l))

\* position of the m-th non-empty element of l
NonEmptyPos(l, m) ==
    CHOOSE i \in 1..Len(l) :
        /\ ~IsBlank(l[i])
        /\ Cardinality({j \in 1..i : ~IsBlank(l[j])}) = m

\* the elements strictly between the m-th and the (m+1)-th non-empty element
GapAfter(l, m) == SubSeq(l, NonEmptyPos(l, m) + 1, NonEmptyPos(l, m + 1) - 1)

Returned == npc \in {"returned", "renormalized"}

\* out is l with some blank elements deleted and the others turned into "\n"
RECURSIVE DeletesOnlyBlanks(_, _)
DeletesOnlyBlanks(l, out) ==
    IF l = <<>> THEN out = <<>>
    ELSE \/ /\ Head(l) = <<>>
            /\ DeletesOnlyBlanks(Tail(l), out)
         \/ /\ out # <<>>
            /\ Head(out) = (IF Head(l) = <<>> THEN NL ELSE Head(l))
            /\ DeletesOnlyBlanks(Tail(l), Tail(out))

----------------------------------------------------------------------------
(* process_list *)

\* C1: a list of one or more elements, all of them blank, is normalized to
\* the empty list.
C1_AllBlankGivesEmpty ==
    (Returned /\ Len(lst) >= 1 /\ \A i \in 1..Len(lst) : lst[i] = <<>>)
        => collapsed_list = <<>>

\* C4: every maximal run of k >= 1 blanks between two non-empty elements of
\* the input shows in the output, between the same two elements, as exactly
\* min(k, 2) elements, each of them the marker "\n".
C4_InteriorRunsCollapseToTwo ==
    Returned =>
        /\ NonEmptyCount(collapsed_list) = NonEmptyCount(lst)
        /\ \A m \in 1..(NonEmptyCount(lst) - 1) :
               LET k == Len(GapAfter(lst, m))
                   gap == GapAfter(collapsed_list, m)
               IN  /\ collapsed_list[NonEmptyPos(collapsed_list, m)]
                          = lst[NonEmptyPos(lst, m)]
                   /\ collapsed_list[NonEmptyPos(collapsed_list, m + 1)]
                          = lst[NonEmptyPos(lst, m + 1)]
                   /\ Len(gap) = Min(k, 2)
                   /\ \A i \in 1..Len(gap) : gap[i] = NL

C4_Witness ==
    /\ Returned
    /\ \E m \in 1..(NonEmptyCount(lst) - 1) :
           /\ Len(GapAfter(lst, m)) >= 3
           /\ GapAfter(collapsed_list, m) = <<NL, NL>>

\* C5: the output of process_list never begins and never ends with a blank
\* marker, whatever the blank runs at the two ends of the input.
C5_NoBoundaryBlank ==
    (Returned /\ collapsed_list # <<>>) =>
        /\ collapsed_list[1] # NL
        /\ collapsed_list[Len(collapsed_list)] # NL

\* C6: process_list applied to its own output returns that output.
C6_Idempotent ==
    npc = "renormalized" => renormalized = collapsed_list

C6_Witness ==
    /\ npc = "renormalized"
    /\ Len(collapsed_list) < Len(lst)
    /\ lst[1] = <<>>
    /\ \E i \in 1..Len(collapsed_list) : collapsed_list[i] = NL
    /\ renormalized = collapsed_list

\* C9: the output is the input with some blank elements deleted and every
\* other blank element replaced by "\n"; the non-empty elements are the same,
\* in the same order; a list without a blank element is returned unchanged.
C9_OnlyBlanksChange ==
    Returned =>
        /\ DeletesOnlyBlanks(lst, collapsed_list)
        /\ NonEmptyOf(collapsed_list) = NonEmptyOf(lst)
        /\ (\A i \in 1..Len(lst) : lst[i] # <<>>) => collapsed_list = lst

C9_Witness ==
    /\ Returned
    /\ NonEmptyCount(lst) >= 2
    /\ NonEmptyOf(lst)[1] # NonEmptyOf(lst)[2]
    /\ Len(collapsed_list) < Len(lst)
    /\ \E i \in 1..Len(collapsed_list) : collapsed_list[i] = NL

----------------------------------------------------------------------------
(* extract_text_plain_parts *)

\* the paths (child numbers from the root down) of the leaves of a tree
RECURSIVE LeafPaths(_)
LeafPaths(node) ==
    IF ~node.is_multipart THEN {<<>>}
    ELSE UNION {{<<i>> \o p : p \in LeafPaths(node.children[i])} :
                i \in 1..Len(node.children)}

RECURSIVE NodeAt(_, _)
NodeAt(node, path) ==
    IF path = <<>> THEN node ELSE NodeAt(node.children[Head(path)], Tail(path))

PlainPaths(node) ==
    {p \in LeafPaths(node) : NodeAt(node, p).content_type = "text/plain"}

\* p comes before q in depth-first left-to-right order
Before(p, q) ==
    \E i \in 1..Min(Len(p), Len(q)) :
        /\ \A j \in 1..(i - 1) : p[j] = q[j]
        /\ p[i] < q[i]

Rank(node, p) == Cardinality({q \in PlainPaths(node) : Before(q, p)}) + 1

\* C7: the walker yields the text of every text/plain leaf exactly once, in
\* depth-first left-to-right order, and nothing else.
C7_WalkerYieldsPlainLeavesInOrder ==
    wpc = "exhausted" =>
        /\ Len(yielded) = Cardinality(PlainPaths(tree))
        /\ \A p \in PlainPaths(tree) :
               yielded[Rank(tree, p)] = NodeAt(tree, p).text

C7_Witness ==
    /\ wpc = "exhausted"
    /\ yielded = <<<<"A">>, <<"B">>>>
    /\ \E p \in LeafPaths(tree) : Len(p) = 2 /\ p \in PlainPaths(tree)
    /\ \E p \in LeafPaths(tree) : p \notin PlainPaths(tree)

----------------------------------------------------------------------------
(* parse_email *)

HasHeader(msg, name) == \E i \in 1..Len(msg.headers) : msg.headers[i].name = name
HeaderValue(msg, name) ==
    msg.headers[CHOOSE i \in 1..Len(msg.headers) : msg.headers[i].name = name].value

\* C2: the subject of the returned Email is the Subject header verbatim, and
\* the empty string when there is no Subject header.
C2_SubjectNeverNone ==
    ppc = "returned" =>
        _email.subject = (IF HasHeader(mime_message, "Subject")
                          THEN PyStr(HeaderValue(mime_message, "Subject"))
                          ELSE PyStr(<<>>))

\* C3: when the Date header is absent or is not a date in the fixed format,
\* parse_email ends by raising and returns no Email; an Email it returns
\* never has a null date.
C3_BadDateRaises ==
    /\ (/\ ppc \in {"loop", "returned", "raised"}
        /\ ~(HasHeader(mime_message, "Date")
             /\ HeaderValue(mime_message, "Date") = DateGood))
           => (ppc = "raised" /\ raised.type = "raise" /\ _email = PyNone)
    /\ ppc = "returned" => (_email.type = "Email" /\ _email.date # PyNone
                            /\ _email.date.type = "datetime")
    /\ ppc = "raised" => (_email = PyNone /\ message_date_object = PyNone)

C3_Witness ==
    /\ ppc = "raised"
    /\ HasHeader(mime_message, "Date")
    /\ HeaderValue(mime_message, "Date") = DateSlashes
    /\ raised = Raise("ValueError")

\* C8: the body is the "\n"-join, in walker order, of one string per
\* text/plain part: the separator-free concatenation of process_list applied
\* to the part's stripped lines; no part gives the empty body.
ExpectedBody(msg) ==
    LET ps == extract_text_plain_parts(msg.part)
        one(p) == LET ls == splitlines(p)
                  IN  Concat(process_list([i \in 1..Len(ls) |-> strip(ls[i])]))
    IN  Join([i \in 1..Len(ps) |-> one(ps[i])], NL)

C8_BodyIsJoinOfParts ==
    ppc = "returned" =>
        /\ _email.body = ExpectedBody(mime_message)
        /\ extract_text_plain_parts(mime_message.part) = <<>> => _email.body = <<>>

C8_Witness ==
    /\ ppc = "returned"
    /\ mime_message.part.is_multipart
    /\ Len(extract_text_plain_parts(mime_message.part)) = 2
    /\ Len(mime_message.part.children) = 2
    /\ _email.body = <<"A", "\n", "A">>

----------------------------------------------------------------------------
(* main *)

\* what parse_email returns for a message whose date parses
EmailOf(msg) ==
    Email(strptime(get(msg, "Date")), get(msg, "Subject"), ExpectedBody(msg))

\* get_top_message and parse_email, thread by thread in list order
CallsOfThreads(n) ==
    [k \in 1..(2 * n) |->
        IF k % 2 = 1 THEN Call("get_top_message", threads[(k + 1) \div 2].id)
        ELSE Call("parse_email", threads[k \div 2].id)]

ThreadFailed ==
    caught # NoError /\ caught.at \in {"get_top_message", "parse_email"}

\* C10: threads are retrieved and parsed one at a time in list order; a
\* failure in thread i is caught in main, ends the batch, and leaves exactly
\* the Emails of the threads before i.
C10_SequentialAndFailureEndsBatch ==
    /\ Len(calls) <= 2 * Len(threads)
    /\ calls = SubSeq(CallsOfThreads(Len(threads)), 1, Len(calls))
    /\ Len(_emails) = tidx
    /\ Len(calls) \in {2 * tidx, 2 * tidx + 1, 2 * tidx + 2}
    /\ \A k \in 1..Len(_emails) : _emails[k] = EmailOf(threads[k].message)
    /\ ThreadFailed =>
           /\ mpc = "done"
           /\ tidx < Len(threads)
           /\ calls[Len(calls)].id = threads[tidx + 1].id
           /\ calls[Len(calls)].op = caught.at
    /\ mpc = "propagated" => caught.at = "get_or_refresh_credentials"

C10_Witness ==
    /\ mpc = "done"
    /\ ThreadFailed
    /\ caught.at = "parse_email"
    /\ tidx = 1
    /\ Len(threads) = 2
    /\ Len(_emails) = 1

====
